---- MODULE Spec2Model ----
(***************************************************************************)
(* Model of src/train.py: run(), train() and the result of inference().    *)
(*                                                                         *)
(* The external framework is abstracted as follows.                        *)
(*   - the loss of the batch processed at global_step g is the token g,    *)
(*     or NaN; its gradient is the token g as well;                        *)
(*   - the accumulated gradient (the .grad buffers) is the set of the      *)
(*     gradient tokens summed into it since the last zero_grad();          *)
(*   - the model parameters are the sequence of the gradient sets the      *)
(*     optimizer has applied to the pretrained weights;                    *)
(*   - a dev score is a number in 0..MaxScore, or NaN when the dev set is  *)
(*     empty (np.mean of an empty list).                                   *)
(***************************************************************************)
EXTENDS Integers, Sequences, FiniteSets

\* ---------------------------------------------------------------- bounds
MaxEpochs == 2
MaxBatches == 3
MaxAccum == 2
MaxEvalPeriod == 2
MaxWait == 2
MaxScore == 2

\* ------------------------------------------------------- float modelling
\* not-a-number, as produced by the forward pass or by np.mean([])
NaN == -2

\* best_accuracy = -1
InitialBest == -1

\* the check for a NaN loss never fires
IsNan_Never(x) == FALSE

\* torch.isnan(loss)
IsNan(x) == x = NaN

\* float comparison a < b: false as soon as one side is NaN
Less(a, b) == ~IsNan(a) /\ ~IsNan(b) /\ a < b

VARIABLES
    args,           \* the configuration: num_train_epochs, gradient_accumulation_steps,
                    \* eval_period, wait_step, do_train, do_predict
    n_batches,      \* len(train_data.dataloader)
    dev_empty,      \* dev_data.dataloader yields no example
    pc,             \* "start", "train", "trained", "done", "error"
    mode,           \* model.training: "train" or "eval"
    epoch,          \* loop variable of the outer loop
    batch_idx,      \* batches consumed from the dataloader in this epoch
    global_step,
    loss,           \* loss of the last forward pass (0: none yet)
    train_losses,
    best_accuracy,
    stop_training,
    wait_step,      \* value of the local wait_step (meaningful when wait_bound)
    wait_bound,     \* the local wait_step has been assigned
    grads,          \* accumulated gradient
    params,         \* model parameters
    sched_steps,    \* number of scheduler.step() calls
    file,           \* <output_dir>/best-model.pt
    evals,          \* log of the evaluations run by train
    ops,            \* framework calls made by the last loop iteration, in order
    predicted       \* parameters evaluated by the prediction phase of run

vars == <<args, n_batches, dev_empty, pc, mode, epoch, batch_idx, global_step,
          loss, train_losses, best_accuracy, stop_training, wait_step,
          wait_bound, grads, params, sched_steps, file, evals, ops, predicted>>

Op(o, m) == [op |-> o, mode |-> m]

\* ------------------------------------------------------------- run, setup
Init ==
    /\ args \in [num_train_epochs : 1..MaxEpochs,
                 gradient_accumulation_steps : 1..MaxAccum,
                 eval_period : 1..MaxEvalPeriod,
                 wait_step : 0..MaxWait,
                 do_train : BOOLEAN,
                 do_predict : BOOLEAN]
    /\ n_batches \in 1..MaxBatches
    /\ dev_empty \in BOOLEAN
    /\ pc = "start"
    /\ mode = "eval"
    /\ epoch = 0
    /\ batch_idx = 0
    /\ global_step = 0
    /\ loss = 0
    /\ train_losses = <<>>
    /\ best_accuracy = InitialBest
    /\ stop_training = FALSE
    /\ wait_step = 0
    /\ wait_bound = FALSE
    /\ grads = {}
    /\ params = <<>>
    /\ sched_steps = 0
    /\ file = [written |-> FALSE, state_dict |-> <<>>]
    /\ evals = <<>>
    /\ ops = <<>>
    /\ predicted = [done |-> FALSE, state_dict |-> <<>>, mode |-> "eval"]

\* if args.do_train: ... train(...), up to the first iteration of the loops
StartTrain ==
    /\ pc = "start"
    /\ args.do_train
    /\ pc' = "train"
    /\ mode' = "train"
    /\ global_step' = 0
    /\ train_losses' = <<>>
    /\ best_accuracy' = InitialBest
    /\ stop_training' = FALSE
    /\ epoch' = 0
    /\ batch_idx' = 0
    /\ UNCHANGED <<args, n_batches, dev_empty, loss, wait_step, wait_bound,
                   grads, params, sched_steps, file, evals, ops, predicted>>

\* args.do_train is false: train is not called
SkipTrain ==
    /\ pc = "start"
    /\ ~args.do_train
    /\ pc' = "trained"
    /\ UNCHANGED <<args, n_batches, dev_empty, mode, epoch, batch_idx,
                   global_step, loss, train_losses, best_accuracy,
                   stop_training, wait_step, wait_bound, grads, params,
                   sched_steps, file, evals, ops, predicted>>

\* ------------------------------------------------------------------ train
\* the loss returned by the forward pass of the batch of step gs
Forward(gs, isnan) == IF isnan THEN NaN ELSE gs

\* the scores inference can return: np.mean(dev_data.evaluate(predictions))
Scores(empty) == IF empty THEN {NaN} ELSE 0..MaxScore

\* the boundary tested on the step count before its increment
IsAccumulationBoundary_BeforeIncrement(gs, k) == (gs - 1) % k = 0

\* if global_step % args.gradient_accumulation_steps == 0
IsAccumulationBoundary(gs, k) == gs % k = 0

\* the period tested on the step count before its increment
IsEvalStep_BeforeIncrement(gs, k) == (gs - 1) % k = 0

\* if global_step % args.eval_period == 0
IsEvalStep(gs, k) == gs % k = 0

\* a score equal to the best one counts as an improvement
Improves_OrEqual(best, curr) == Less(best, curr) \/ best = curr

\* if best_accuracy < curr_em
Improves(best, curr) == Less(best, curr)

\* the counter has to exceed the threshold
PatienceExhausted_Strict(w, threshold) == w > threshold

\* if wait_step >= args.wait_step
PatienceExhausted(w, threshold) == w >= threshold

\* the buffer is not emptied after logging
ResetLosses_Keep(l) == l

\* train_losses = []
ResetLosses(l) == <<>>

\* the model is left in evaluation mode
ModeAfterEval_Stays == "eval"

\* model.train() at the end of an evaluation that does not break
ModeAfterEval == "train"

\* the outer loop does not test stop_training
OuterBreak_Never(stop) == FALSE

\* if stop_training: break   (outer loop)
OuterBreak(stop) == stop

\* where control goes when the inner loop is left (by break or exhaustion)
\* in epoch ep with stop_training = stop
AfterInner(stop, ep) ==
    IF OuterBreak(stop) THEN [pc |-> "trained", epoch |-> ep]
    ELSE IF ep + 1 < args.num_train_epochs
         THEN [pc |-> "train", epoch |-> ep + 1]
         ELSE [pc |-> "trained", epoch |-> ep]

\* where control goes after a loop iteration that did not break
AfterBatch(stop, ep, idx) ==
    IF idx < n_batches
    THEN [pc |-> "train", epoch |-> ep, batch_idx |-> idx]
    ELSE LET a == AfterInner(stop, ep)
         IN [pc |-> a.pc, epoch |-> a.epoch, batch_idx |-> 0]

\* leaving the inner loop by break
AfterBreak(stop, ep, idx) ==
    LET a == AfterInner(stop, ep)
    IN [pc |-> a.pc, epoch |-> a.epoch,
        batch_idx |-> IF a.pc = "train" THEN 0 ELSE idx]

\* one iteration of the inner loop
Batch ==
    /\ pc = "train"
    /\ \E isnan \in BOOLEAN, curr_em \in Scores(dev_empty) :
        LET gs == global_step + 1
            idx == batch_idx + 1
            l == Forward(gs, isnan)
            fwd == <<Op("forward", mode)>>
        IN
        /\ global_step' = gs
        /\ loss' = l
        /\ IF IsNan(l)
           THEN \* logger.info; stop_training = True; break
                LET nxt == AfterBreak(TRUE, epoch, idx) IN
                /\ stop_training' = TRUE
                /\ pc' = nxt.pc
                /\ epoch' = nxt.epoch
                /\ batch_idx' = nxt.batch_idx
                /\ ops' = fwd
                /\ UNCHANGED <<mode, train_losses, best_accuracy, wait_step,
                               wait_bound, grads, params, sched_steps, file,
                               evals>>
           ELSE
                LET losses1 == Append(train_losses, l)
                    grads1 == grads \cup {gs}
                    bwd == fwd \o <<Op("backward", mode)>>
                    step == IsAccumulationBoundary(gs, args.gradient_accumulation_steps)
                    params1 == IF step THEN Append(params, grads1) ELSE params
                    grads2 == IF step THEN {} ELSE grads1
                    sched1 == IF step THEN sched_steps + 1 ELSE sched_steps
                    ops1 == IF step
                            THEN bwd \o <<Op("clip_grad_norm", mode),
                                          Op("optimizer.step", mode),
                                          Op("scheduler.step", mode),
                                          Op("zero_grad", mode)>>
                            ELSE bwd
                IN
                /\ grads' = grads2
                /\ params' = params1
                /\ sched_steps' = sched1
                /\ IF ~IsEvalStep(gs, args.eval_period)
                   THEN LET nxt == AfterBatch(stop_training, epoch, idx) IN
                        /\ train_losses' = losses1
                        /\ ops' = ops1
                        /\ pc' = nxt.pc
                        /\ epoch' = nxt.epoch
                        /\ batch_idx' = nxt.batch_idx
                        /\ UNCHANGED <<mode, best_accuracy, stop_training,
                                       wait_step, wait_bound, file, evals>>
                   ELSE \* model.eval(); curr_em = inference(...); log; train_losses = []
                        LET better == Improves(best_accuracy, curr_em)
                            entry == [step |-> gs, score |-> curr_em,
                                      state_dict |-> params1,
                                      logged |-> losses1, epoch |-> epoch,
                                      saved |-> better]
                        IN
                        /\ evals' = Append(evals, entry)
                        /\ ops' = ops1 \o <<Op("inference", "eval")>>
                        /\ train_losses' = ResetLosses(losses1)
                        /\ IF better
                           THEN LET nxt == AfterBatch(FALSE, epoch, idx) IN
                                /\ file' = [written |-> TRUE, state_dict |-> params1]
                                /\ best_accuracy' = curr_em
                                /\ wait_step' = 0
                                /\ wait_bound' = TRUE
                                /\ stop_training' = FALSE
                                /\ mode' = ModeAfterEval
                                /\ pc' = nxt.pc
                                /\ epoch' = nxt.epoch
                                /\ batch_idx' = nxt.batch_idx
                           ELSE IF ~wait_bound
                           THEN \* wait_step += 1 raises UnboundLocalError
                                /\ pc' = "error"
                                /\ mode' = "eval"
                                /\ batch_idx' = idx
                                /\ UNCHANGED <<file, best_accuracy, wait_step,
                                               wait_bound, stop_training, epoch>>
                           ELSE IF PatienceExhausted(wait_step + 1, args.wait_step)
                           THEN LET nxt == AfterBreak(TRUE, epoch, idx) IN
                                /\ wait_step' = wait_step + 1
                                /\ stop_training' = TRUE
                                /\ mode' = "eval"
                                /\ pc' = nxt.pc
                                /\ epoch' = nxt.epoch
                                /\ batch_idx' = nxt.batch_idx
                                /\ UNCHANGED <<file, best_accuracy, wait_bound>>
                           ELSE LET nxt == AfterBatch(stop_training, epoch, idx) IN
                                /\ wait_step' = wait_step + 1
                                /\ mode' = ModeAfterEval
                                /\ pc' = nxt.pc
                                /\ epoch' = nxt.epoch
                                /\ batch_idx' = nxt.batch_idx
                                /\ UNCHANGED <<file, best_accuracy, wait_bound,
                                               stop_training>>
    /\ UNCHANGED <<args, n_batches, dev_empty, predicted>>

\* ---------------------------------------------------------- run, predict
\* what the prediction phase puts into the model before evaluating it
\* (# TODO add loader from checkpoint: nothing is loaded)
PredictWeights(inmemory, checkpoint) == inmemory

\* if args.do_predict: log, model.eval(), inference(model, dev_data)
Predict ==
    /\ pc = "trained"
    /\ args.do_predict
    /\ mode' = "eval"
    /\ predicted' = [done |-> TRUE,
                     state_dict |-> PredictWeights(params, file.state_dict),
                     mode |-> "eval"]
    /\ pc' = "done"
    /\ UNCHANGED <<args, n_batches, dev_empty, epoch, batch_idx, global_step,
                   loss, train_losses, best_accuracy, stop_training, wait_step,
                   wait_bound, grads, params, sched_steps, file, evals, ops>>

\* args.do_predict is false: run returns
Finish ==
    /\ pc = "trained"
    /\ ~args.do_predict
    /\ pc' = "done"
    /\ UNCHANGED <<args, n_batches, dev_empty, mode, epoch, batch_idx,
                   global_step, loss, train_losses, best_accuracy,
                   stop_training, wait_step, wait_bound, grads, params,
                   sched_steps, file, evals, ops, predicted>>

Next == StartTrain \/ SkipTrain \/ Batch \/ Predict \/ Finish

Spec == Init /\ [][Next]_vars

\* the procedure is sequential: a step that can be taken is taken
LiveSpec == Init /\ [][Next]_vars /\ WF_vars(Next)

\* ===================================================== reference notions
\* computed from the logged scores alone, independently of the bookkeeping

Bound == args.num_train_epochs * n_batches

NumEvals == Len(evals)

RECURSIVE RunningBest(_)
\* the best score among the first k evaluations (InitialBest when none counts)
RunningBest(k) ==
    IF k = 0 THEN InitialBest
    ELSE IF Less(RunningBest(k - 1), evals[k].score)
         THEN evals[k].score
         ELSE RunningBest(k - 1)

RECURSIVE Patience(_)
\* the number of consecutive evaluations, ending with the k-th, that did not
\* improve on the best score before them
Patience(k) ==
    IF k = 0 THEN 0
    ELSE IF Less(RunningBest(k - 1), evals[k].score)
         THEN 0
         ELSE Patience(k - 1) + 1

\* i is the earliest evaluation with the highest score
IsEarliestBest(i) ==
    /\ i \in 1..NumEvals
    /\ \A j \in 1..NumEvals : evals[j].score <= evals[i].score
    /\ \A j \in 1..(i - 1) : evals[j].score < evals[i].score

\* the loss tokens of the steps a+1 .. b, in order
LossesOfSteps(a, b) == [i \in 1..(b - a) |-> a + i]

CountOp(o) == Cardinality({i \in 1..Len(ops) : ops[i].op = o})

\* a loop iteration has just been executed
BatchStep == global_step' = global_step + 1

\* train has returned or raised
TrainOver == pc \in {"trained", "done", "error"}

\* training was halted by the patience branch
EarlyStopped == stop_training /\ loss # NaN

\* ================================================================ claims

\* C1: a batch whose loss is NaN halts training: the loss is not appended to
\* train_losses, there is no backward pass, optimizer step, scheduler step,
\* evaluation or checkpoint write for that batch, and no later batch is
\* processed, in this epoch or a later one.
C1_NanHalts ==
    [][ /\ (BatchStep /\ loss' = NaN) =>
            /\ train_losses' = train_losses
            /\ grads' = grads
            /\ params' = params
            /\ sched_steps' = sched_steps
            /\ evals' = evals
            /\ file' = file
            /\ ops' = <<Op("forward", mode)>>
            /\ pc' = "trained"
        /\ loss = NaN => (global_step' = global_step /\ pc' # "train") ]_vars

\* a NaN loss ended training with batches and an epoch still to go
C1_Witness ==
    /\ loss = NaN
    /\ pc = "done"
    /\ batch_idx < n_batches
    /\ epoch + 1 < args.num_train_epochs
    /\ NumEvals >= 1

\* C2 (as amended): once wait_step is assigned it equals the number of
\* consecutive non-improving evaluations since the last improvement (0 right
\* after an improvement); early stopping halts training exactly when a
\* non-improving evaluation brings it to args.wait_step or more; after the
\* halt no further batch is processed.
C2_PatienceReached ==
    /\ [](wait_bound =>
            /\ wait_step = Patience(NumEvals)
            /\ EarlyStopped <=> (wait_step >= 1 /\ wait_step >= args.wait_step))
    /\ [](~wait_bound => ~EarlyStopped)
    /\ [][EarlyStopped => (global_step' = global_step /\ pc' # "train")]_vars

\* early stopping after an improvement followed by two evaluations without
\* one, with batches still to go
C2_Witness ==
    /\ EarlyStopped
    /\ wait_step = 2
    /\ args.wait_step = 2
    /\ global_step < Bound
    /\ pc = "done"

\* C2 (as stated): early stopping halts exactly when the counter exceeds
\* args.wait_step.
C2_Original ==
    wait_bound => (EarlyStopped <=> wait_step > args.wait_step)

\* C3: once best-model.pt has been written it holds the parameters of the
\* earliest evaluation with the highest dev score so far, best_accuracy is
\* that score, best_accuracy never decreases, and the file is written only at
\* an evaluation whose score is strictly greater than every earlier score.
C3_BestCheckpoint ==
    /\ [](file.written =>
            \E i \in 1..NumEvals :
                /\ IsEarliestBest(i)
                /\ file.state_dict = evals[i].state_dict
                /\ best_accuracy = evals[i].score)
    /\ [](file.written <=> \E k \in 1..NumEvals : evals[k].saved)
    /\ [](\A k \in 1..NumEvals : evals[k].saved =>
            /\ evals[k].score # NaN
            /\ \A j \in 1..(k - 1) : evals[j].score < evals[k].score)
    /\ [][best_accuracy' >= best_accuracy]_vars
    /\ [][file' # file => (NumEvals' = NumEvals + 1 /\ evals'[NumEvals'].saved
                            /\ file'.state_dict = params')]_vars

\* the best score was reached twice, with different parameters, and the file
\* holds those of the first time
C3_Witness ==
    /\ file.written
    /\ \E i, j \in 1..NumEvals :
        /\ i < j
        /\ evals[i].score = evals[j].score
        /\ evals[i].score = best_accuracy
        /\ evals[i].state_dict # evals[j].state_dict
        /\ file.state_dict = evals[i].state_dict
    /\ params # file.state_dict

\* the optimizer has been stepped by the iteration just executed
OptStepTaken == params' # params

\* C4 (as amended): an optimizer step is taken exactly at the steps whose
\* loss is not NaN and whose global_step is a positive multiple of
\* args.gradient_accumulation_steps; it applies the sum of the gradients of
\* exactly the args.gradient_accumulation_steps batches since the previous
\* optimizer step, is preceded by clipping and followed by exactly one
\* scheduler step and a gradient reset.
C4_OptimizerSteps ==
    [][BatchStep =>
        /\ OptStepTaken <=>
            (loss' # NaN /\ global_step' % args.gradient_accumulation_steps = 0)
        /\ OptStepTaken =>
            /\ params' = Append(params,
                  {g \in 1..global_step' :
                      g > global_step' - args.gradient_accumulation_steps})
            /\ \E i \in 1..(Len(ops') - 4) :
                  SubSeq(ops', i, i + 4) =
                      <<Op("backward", "train"), Op("clip_grad_norm", "train"),
                        Op("optimizer.step", "train"),
                        Op("scheduler.step", "train"), Op("zero_grad", "train")>>
            /\ sched_steps' = sched_steps + 1
            /\ grads' = {}
        /\ ~OptStepTaken =>
            /\ sched_steps' = sched_steps
            /\ \A i \in 1..Len(ops') :
                  ops'[i].op \notin {"clip_grad_norm", "optimizer.step",
                                     "scheduler.step", "zero_grad"}
        /\ sched_steps' = Len(params')
        /\ (loss' # NaN) => grads' =
              {g \in 1..global_step' :
                  g > global_step' -
                      (global_step' % args.gradient_accumulation_steps)}
    ]_vars

\* an optimizer step applied gradients accumulated across an epoch boundary
\* and an intervening evaluation
C4_Witness ==
    /\ args.gradient_accumulation_steps = 2
    /\ \E i \in 1..Len(params) : params[i] = {n_batches, n_batches + 1}
    /\ \E k \in 1..NumEvals : evals[k].step = n_batches
    /\ Len(params) = sched_steps

\* C4 (as stated): an optimizer step is taken exactly at the steps whose
\* global_step is a positive multiple of args.gradient_accumulation_steps.
C4_Original ==
    [][BatchStep =>
        (OptStepTaken <=>
            global_step' % args.gradient_accumulation_steps = 0)]_vars

\* C5: an evaluation runs at a step iff the step's loss is not NaN and
\* global_step is a positive multiple of args.eval_period; global_step counts
\* batches continuously across epochs, so evaluations are exactly
\* args.eval_period steps apart.
C5_EvalPeriod ==
    /\ [][BatchStep =>
            /\ (NumEvals' = NumEvals + 1) <=>
                  (loss' # NaN /\ global_step' % args.eval_period = 0)
            /\ NumEvals' \in {NumEvals, NumEvals + 1}
            /\ NumEvals' = NumEvals + 1 => evals'[NumEvals'].step = global_step'
            /\ CountOp("inference")' = NumEvals' - NumEvals]_vars
    /\ [][~BatchStep => evals' = evals]_vars
    /\ [](\A k \in 1..NumEvals : evals[k].step = k * args.eval_period)
    /\ [](pc = "train" => global_step = epoch * n_batches + batch_idx)

\* two evaluations eval_period = 2 apart, on both sides of an epoch boundary
\* that is not a multiple of the period
C5_Witness ==
    /\ args.eval_period = 2
    /\ n_batches = 3
    /\ NumEvals = 2
    /\ evals[1].epoch = 0
    /\ evals[2].epoch = 1
    /\ evals[2].step = evals[1].step + 2

\* C6: the prediction phase evaluates the weights stored in best-model.pt;
\* after training, those of the best checkpoint and not the ones left in
\* memory by the last training step.
C6_PredictsBestCheckpoint ==
    (predicted.done /\ file.written) => predicted.state_dict = file.state_dict

\* C7: wait_step is never read before it is assigned: whatever score the
\* first evaluation returns, it takes the improvement branch, which sets
\* wait_step to 0.
C7_FirstEvalAssignsWait ==
    /\ pc # "error"
    /\ NumEvals >= 1 => (evals[1].saved /\ wait_bound)

\* C8: at every evaluation train_losses holds exactly the losses of the
\* args.eval_period steps since the previous evaluation (or the start), so it
\* is not empty when its mean is logged; it is empty right after every
\* evaluation.
C8_LossBuffer ==
    /\ \A k \in 1..NumEvals :
        LET prev == IF k = 1 THEN 0 ELSE evals[k - 1].step IN
        /\ evals[k].logged = LossesOfSteps(prev, evals[k].step)
        /\ Len(evals[k].logged) = args.eval_period
        /\ evals[k].logged # <<>>
    /\ (NumEvals >= 1 /\ global_step = evals[NumEvals].step) => train_losses = <<>>
    /\ LET prev == IF NumEvals = 0 THEN 0 ELSE evals[NumEvals].step
           last == IF loss = NaN THEN global_step - 1 ELSE global_step
       IN train_losses = LossesOfSteps(prev, last)

\* a second evaluation logged the two losses since the first one, and the
\* buffer was emptied
C8_Witness ==
    /\ NumEvals = 2
    /\ args.eval_period = 2
    /\ evals[2].logged = <<3, 4>>
    /\ train_losses = <<>>
    /\ global_step = 4

\* C9: every forward/backward pass of train runs in training mode and every
\* inference in evaluation mode; the model is back in training mode after
\* every evaluation that does not halt training.
C9_Modes ==
    /\ \A i \in 1..Len(ops) :
        /\ ops[i].op \in {"forward", "backward"} => ops[i].mode = "train"
        /\ ops[i].op = "inference" => ops[i].mode = "eval"
    /\ pc = "train" => mode = "train"
    /\ (TrainOver /\ args.do_train /\ NumEvals >= 1
            /\ global_step = evals[NumEvals].step
            /\ (stop_training \/ pc = "error")) => mode = "eval"
    /\ predicted.done => predicted.mode = "eval"

\* a forward and backward pass right after an evaluation that went on
C9_Witness ==
    /\ NumEvals >= 1
    /\ global_step = evals[NumEvals].step + 1
    /\ Len(ops) = 2
    /\ ops[1] = Op("forward", "train")
    /\ ops[2] = Op("backward", "train")
    /\ pc = "train"

====
